---- MODULE Spec2Model ----
(***************************************************************************)
(* KIIT SmartBus backend: the bus store (models/Bus.js), the bus routes    *)
(* (routes/buses.js) and the Socket.io rooms (server.js).                  *)
(*                                                                         *)
(* Coordinates are integers in units of 1e-4 degree (20.2961 is 202961).   *)
(* A request handler is an async function: every `await` of a database     *)
(* call is a point where other handlers run, so a mutation handler is four *)
(* steps (findById is answered, the continuation up to save(), the update  *)
(* is applied by the database, the continuation that emits and responds).  *)
(* POST / and DELETE /:id write fields no other handler writes and are one *)
(* step each. Every caller is an authenticated user: req.user is the user  *)
(* document the auth middleware attached.                                  *)
(*                                                                         *)
(* Spec is the HTTP API (registration, mutation, deactivation, the clock); *)
(* SpecBroker adds the Socket.io connections, rooms and client relays.     *)
(***************************************************************************)
EXTENDS Integers, Sequences, FiniteSets, TLC

\* ---------------------------------------------------------------- bounds
MaxBuses == 2
MaxClock == 2
MaxReq == 2
MaxRelay == 1
MaxSockets == 2
MaxPass == 3
TestCapacity == 2

\* ------------------------------------------------------- program constants
MinLat == -900000
MaxLat == 900000
MinLon == -1800000
MaxLon == 1800000
MinCapacity == 1
MaxCapacity == 100
MaxHeading == 360
FullPercentage == 90
DefaultLon == 858189
DefaultLat == 202961

Destinations == {"Campus 25", "Campus 6", "Campus 15", "Main Campus", "Other"}
Statuses == {"active", "inactive", "maintenance", "offline"}
SeatTiers == {"Empty", "Few Seats", "Full"}

\* An absent (undefined) numeric / string field of a request body.
UndefN == -999
UndefS == "undefined"

\* ------------------------------------------------------------------ users
\* The users collection is managed by routes outside this model; it is fixed:
\* one admin, two drivers, one student (userSchema.role).
Users == {"admin", "d1", "d2", "stu"}

Role(u) ==
  CASE u = "admin" -> "admin"
    [] u \in {"d1", "d2"} -> "driver"
    [] OTHER -> "student"

BusIds == 1..MaxBuses
NoBus == [exists |-> FALSE]
BusNumbers == {"KB1", "KB2"}

Sockets == 1..MaxSockets
Reqs == 1..MaxReq

\* store       : the buses collection, by _id (NoBus: no such document)
\* assignedBus : users.assignedBus (0: none)
\* clock       : the wall clock read by new Date() / Date.now
\* reqs        : the PUT /:id/location and PUT /:id/status handlers in flight
\* conn, rooms : the Socket.io connections and the rooms each one joined
\* delivered   : the events each connection received, in order
\* ncommit     : number of updates the database applied (commit order)
\* nrelay      : number of client socket messages relayed
\* leaveSent   : <<connection, bus>> pairs whose last message was a leave
\* lastReg     : the last POST / request and the status it was answered
\* lastResp    : the last GET or DELETE request and what it was answered
VARIABLES store, assignedBus, clock, reqs, conn, rooms, delivered, ncommit,
          nrelay, leaveSent, lastReg, lastResp

vars == <<store, assignedBus, clock, reqs, conn, rooms, delivered, ncommit,
          nrelay, leaveSent, lastReg, lastResp>>

\* ---------------------------------------------------------- Bus.js schema
\* A new Bus document with the schema defaults and the fields POST / sets.
NewBus(busNumber, driverId, capacity, destination, now) ==
  [exists |-> TRUE, busNumber |-> busNumber, driverId |-> driverId,
   coordinates |-> <<DefaultLon, DefaultLat>>,
   destination |-> destination, status |-> "inactive",
   seatAvailability |-> "Empty", capacity |-> capacity,
   currentPassengers |-> 0, lastUpdated |-> now, isActive |-> TRUE,
   speed |-> 0, heading |-> 0, v |-> 0]

\* The tier with the threshold compared strictly (> 90 instead of >= 90).
deriveTierStrict(currentPassengers, capacity) ==
  IF currentPassengers * 100 = 0 THEN "Empty"
  ELSE IF currentPassengers * 100 > FullPercentage * capacity THEN "Full"
  ELSE "Few Seats"

\* busSchema.pre('save'): the tier computed from the passenger count.
\* (p / c) * 100 >= 90 is computed in integers; for c <= 100 the double
\* arithmetic of the source gives the same answer.
deriveTier(currentPassengers, capacity) ==
  IF currentPassengers * 100 = 0 THEN "Empty"
  ELSE IF currentPassengers * 100 >= FullPercentage * capacity THEN "Full"
  ELSE "Few Seats"

\* ------------------------------------------------------- mongoose document
\* A loaded document is the record read from the store plus the set of paths
\* modified since (doc.isModified). Assigning a value equal to the current one
\* does not mark the path.
SetPath(d, path, val) ==
  IF d.doc[path] = val THEN d
  ELSE [doc |-> [d.doc EXCEPT ![path] = val], mod |-> d.mod \cup {path}]

Loaded(rec) == [doc |-> rec, mod |-> {}]

\* Schema validation run by save() on the modified paths.
ValidCoordinates(c) ==
  /\ Len(c) = 2
  /\ c[1] >= MinLon /\ c[1] <= MaxLon
  /\ c[2] >= MinLat /\ c[2] <= MaxLat

SchemaValid(d) ==
  /\ "coordinates" \in d.mod => ValidCoordinates(d.doc.coordinates)
  /\ "destination" \in d.mod => d.doc.destination \in Destinations
  /\ "status" \in d.mod => d.doc.status \in Statuses
  /\ "seatAvailability" \in d.mod => d.doc.seatAvailability \in SeatTiers
  /\ "currentPassengers" \in d.mod => d.doc.currentPassengers >= 0
  /\ "speed" \in d.mod => d.doc.speed >= 0
  /\ "heading" \in d.mod => (d.doc.heading >= 0 /\ d.doc.heading <= MaxHeading)

\* busSchema.pre('save'): only when currentPassengers was modified.
preSave(d) ==
  IF "currentPassengers" \in d.mod
  THEN SetPath(d, "seatAvailability",
               deriveTier(d.doc.currentPassengers, d.doc.capacity))
  ELSE d

\* busSchema.methods.updateLocation, up to the call of save().
updateLocation(d, latitude, longitude, speed, heading, now) ==
  SetPath(SetPath(SetPath(SetPath(d,
    "coordinates", <<longitude, latitude>>),
    "speed", speed),
    "heading", heading),
    "lastUpdated", now)

\* A save() that writes the whole loaded document back.
ApplyUpdateWholeDoc(cur, d) ==
  [f \in DOMAIN cur |->
     IF f = "v" THEN (IF "coordinates" \in d.mod THEN cur.v + 1 ELSE cur.v)
     ELSE d.doc[f]]

\* save() sends the modified paths only; the update of a document whose
\* coordinates array was replaced carries the version it was loaded with.
ApplyUpdate(cur, d) ==
  [f \in DOMAIN cur |->
     IF f \in d.mod THEN d.doc[f]
     ELSE IF f = "v" /\ "coordinates" \in d.mod THEN cur.v + 1
     ELSE cur[f]]

VersionConflict(cur, d) == "coordinates" \in d.mod /\ cur.v # d.doc.v

\* ---------------------------------------------------------- request bodies
LocBody(latitude, longitude, speed, heading) ==
  [latitude |-> latitude, longitude |-> longitude, speed |-> speed,
   heading |-> heading, status |-> UndefS, seatAvailability |-> UndefS,
   currentPassengers |-> UndefN, destination |-> UndefS]

StatusBody(status, seatAvailability, currentPassengers, destination) ==
  [latitude |-> UndefN, longitude |-> UndefN, speed |-> UndefN,
   heading |-> UndefN, status |-> status,
   seatAvailability |-> seatAvailability,
   currentPassengers |-> currentPassengers, destination |-> destination]

\* express-validator chains of PUT /:id/location and PUT /:id/status.
ValidLocationBody(b) ==
  /\ b.latitude # UndefN /\ b.latitude >= MinLat /\ b.latitude <= MaxLat
  /\ b.longitude # UndefN /\ b.longitude >= MinLon /\ b.longitude <= MaxLon
  /\ b.speed # UndefN => b.speed >= 0
  /\ b.heading # UndefN => (b.heading >= 0 /\ b.heading <= MaxHeading)

ValidStatusBody(b) ==
  /\ b.status \in Statuses
  /\ b.seatAvailability \in SeatTiers
  /\ b.currentPassengers # UndefN => b.currentPassengers >= 0

ValidBody(kind, b) ==
  IF kind = "location" THEN ValidLocationBody(b) ELSE ValidStatusBody(b)

\* The ownership check with the comparison inverted.
NotAuthorizedInverted(user, bus) ==
  Role(user) = "driver" /\ bus.driverId = user

\* The ownership check both mutation handlers make after loading the bus.
NotAuthorized(user, bus) == Role(user) = "driver" /\ bus.driverId # user

\* PUT /:id/status, Object.assign(bus, updateData) and bus.lastUpdated.
assignStatus(d, b, now) ==
  LET d1 == SetPath(SetPath(d, "status", b.status),
                    "seatAvailability", b.seatAvailability)
      d2 == IF b.currentPassengers # UndefN
            THEN SetPath(d1, "currentPassengers", b.currentPassengers)
            ELSE d1
      d3 == IF b.destination # UndefS
            THEN SetPath(d2, "destination", b.destination)
            ELSE d2
  IN SetPath(d3, "lastUpdated", now)

Default(x, dflt) == IF x = UndefN THEN dflt ELSE x

\* The document as the handler leaves it when it calls save().
Modify(kind, d, b, now) ==
  IF kind = "location"
  THEN updateLocation(d, b.latitude, b.longitude, Default(b.speed, 0),
                      Default(b.heading, 0), now)
  ELSE assignStatus(d, b, now)

\* ------------------------------------------------------------ input sets
MoveBody == LocBody(203550, 858190, 5, 90)
SpeedOnlyBody == LocBody(DefaultLat, DefaultLon, 7, UndefN)
BadLatBody == LocBody(MaxLat + 1, 858190, UndefN, UndefN)
FullTurnBody == LocBody(DefaultLat, DefaultLon, UndefN, MaxHeading)
LocationBodies == {MoveBody, SpeedOnlyBody, BadLatBody, FullTurnBody}

CountBody(p) == StatusBody("active", "Full", p, UndefS)
NoCountBody == StatusBody("maintenance", "Full", UndefN, "Campus 6")
BadDestBody == StatusBody("active", "Empty", UndefN, "Nowhere")
BadStatusBody == StatusBody("bogus", "Empty", -1, UndefS)
StatusBodies ==
  {CountBody(p) : p \in 0..MaxPass}
  \cup {NoCountBody, BadDestBody, BadStatusBody}

\* The requests the clients send: <<caller, kind, body>>.
Requests ==
  {<<u, "location", MoveBody>> : u \in Users}
  \cup {<<"d1", "location", b>> : b \in LocationBodies}
  \cup {<<"d1", "status", b>> : b \in StatusBodies}
  \cup {<<"stu", "status", CountBody(1)>>, <<"admin", "status", NoCountBody>>}

\* The requests sent while an earlier one may still be in flight.
Overlapping ==
  {<<"d1", "location", MoveBody>>, <<"d1", "location", SpeedOnlyBody>>,
   <<"admin", "status", NoCountBody>>}

\* The bus the clients ask to deactivate.
DeleteTargets == {MaxBuses}

RequestsOf(i) == IF i = 1 THEN Requests ELSE Overlapping
TargetsOf(i) == IF i = 1 THEN BusIds ELSE {1}

\* ------------------------------------------------------------------ events
LocationEvent(busId, b, now, cid) ==
  [type |-> "bus-location-updated", busId |-> busId,
   latitude |-> b.latitude, longitude |-> b.longitude,
   speed |-> Default(b.speed, 0), heading |-> Default(b.heading, 0),
   status |-> UndefS, seatAvailability |-> UndefS,
   currentPassengers |-> UndefN, destination |-> UndefS,
   timestamp |-> now, cid |-> cid]

StatusEvent(busId, b, bus, now, cid) ==
  [type |-> "bus-status-updated", busId |-> busId,
   latitude |-> UndefN, longitude |-> UndefN, speed |-> UndefN,
   heading |-> UndefN, status |-> b.status,
   seatAvailability |-> b.seatAvailability,
   currentPassengers |-> bus.currentPassengers,
   destination |-> bus.destination,
   timestamp |-> now, cid |-> cid]

\* io.to(`bus-${busId}`).emit(...): one copy to every socket in the room.
\* A room lookup that ignores which bus a connection joined.
RoomOfAnyBus(busId) == {s \in Sockets : conn[s] = "open" /\ rooms[s] # {}}

RoomOf(busId) == {s \in Sockets : conn[s] = "open" /\ busId \in rooms[s]}

\* An emit that ignores the room (io.emit): every open connection gets it.
EmitToAll(room, ev) ==
  [s \in Sockets |-> IF conn[s] = "open" THEN Append(delivered[s], ev)
                     ELSE delivered[s]]

EmitTo(room, ev) ==
  [s \in Sockets |-> IF s \in room THEN Append(delivered[s], ev)
                     ELSE delivered[s]]

\* ------------------------------------------------------------------- Init
\* A response of a GET or DELETE endpoint: the request and what was answered.
Resp(op, user, busId, path, query, dest, status, buses) ==
  [op |-> op, user |-> user, busId |-> busId, path |-> path, query |-> query,
   destination |-> dest, status |-> status, buses |-> buses]

NoPoint == <<UndefN, UndefN>>
NoQuery == [latitude |-> UndefN, longitude |-> UndefN, maxDistance |-> UndefN,
            limit |-> UndefN]

\* No GET or DELETE answered yet.
NoResp == Resp("none", "admin", 0, NoPoint, NoQuery, UndefS, 0, <<>>)

\* No POST / answered yet.
NoReg ==
  [user |-> "admin", busNumber |-> UndefS, driverId |-> UndefS,
   capacity |-> UndefN, destination |-> UndefS, status |-> 0]

IdleReq ==
  [pc |-> "idle", kind |-> "location", user |-> "admin", busId |-> 1,
   body |-> LocBody(UndefN, UndefN, UndefN, UndefN),
   orig |-> NoBus, d |-> Loaded(NoBus), resp |-> 0, cid |-> 0]

Init ==
  /\ store = [b \in BusIds |-> NoBus]
  /\ assignedBus = [u \in Users |-> 0]
  /\ clock = 0
  /\ reqs = [i \in Reqs |-> IdleReq]
  /\ conn = [s \in Sockets |-> "new"]
  /\ rooms = [s \in Sockets |-> {}]
  /\ delivered = [s \in Sockets |-> <<>>]
  /\ ncommit = 0
  /\ nrelay = 0
  /\ leaveSent = {}
  /\ lastReg = NoReg
  /\ lastResp = NoResp

\* The wall clock advances.
Tick ==
  /\ clock < MaxClock
  /\ clock' = clock + 1
  /\ UNCHANGED <<store, assignedBus, reqs, conn, rooms, delivered, ncommit,
                 nrelay, leaveSent, lastReg, lastResp>>

\* ----------------------------------------------------------------- POST /
\* A POST / that does not look the driver up.
RegisterStatusAnyDriver(user, busNumber, driverId, capacity, destination) ==
  IF ~(capacity >= MinCapacity /\ capacity <= MaxCapacity)
     \/ destination \notin Destinations
  THEN 400
  ELSE IF \E b \in BusIds : store[b].exists /\ store[b].busNumber = busNumber
  THEN 400
  ELSE 201

\* Status code of POST / for the given caller and body in the current state.
RegisterStatus(user, busNumber, driverId, capacity, destination) ==
  IF ~(capacity >= MinCapacity /\ capacity <= MaxCapacity)
     \/ destination \notin Destinations
  THEN 400
  ELSE IF \E b \in BusIds : store[b].exists /\ store[b].busNumber = busNumber
  THEN 400
  ELSE IF driverId \notin Users \/ Role(driverId) # "driver"
  THEN 400
  ELSE 201

FreshId == CHOOSE b \in BusIds : ~store[b].exists /\
                                 \A c \in BusIds : c < b => store[c].exists

\* The handler's effect on the database.
CreateBus(user, busNumber, driverId, capacity, destination) ==
  /\ \E b \in BusIds : ~store[b].exists
  /\ IF RegisterStatus(user, busNumber, driverId, capacity, destination) = 201
     THEN /\ store' = [store EXCEPT ![FreshId] =
                NewBus(busNumber, driverId, capacity, destination, clock)]
          /\ assignedBus' = [assignedBus EXCEPT ![driverId] = FreshId]
     ELSE UNCHANGED <<store, assignedBus>>
  /\ UNCHANGED <<clock, reqs, conn, rooms, delivered, ncommit, nrelay,
                 leaveSent, lastResp>>

Register(user, busNumber, driverId, capacity, destination) ==
  /\ CreateBus(user, busNumber, driverId, capacity, destination)
  /\ UNCHANGED lastReg

\* The same handler with the request and the status it answered kept in
\* lastReg.
RegisterLogged(user, busNumber, driverId, capacity, destination) ==
  /\ CreateBus(user, busNumber, driverId, capacity, destination)
  /\ lastReg' =
       [user |-> user, busNumber |-> busNumber, driverId |-> driverId,
        capacity |-> capacity, destination |-> destination,
        status |-> RegisterStatus(user, busNumber, driverId, capacity,
                                  destination)]

\* ------------------------------------ PUT /:id/location, PUT /:id/status
\* The validators run; a valid request issues Bus.findById.
Submit(i, user, busId, kind, body) ==
  /\ reqs[i].pc = "idle"
  /\ \A j \in Reqs : j < i => reqs[j].pc # "idle"
  /\ reqs' = [reqs EXCEPT ![i] =
       IF ValidBody(kind, body)
       THEN [IdleReq EXCEPT !.pc = "findById", !.kind = kind, !.user = user,
                            !.busId = busId, !.body = body]
       ELSE [IdleReq EXCEPT !.pc = "done", !.kind = kind, !.user = user,
                            !.busId = busId, !.body = body, !.resp = 400]]
  /\ UNCHANGED <<store, assignedBus, clock, conn, rooms, delivered, ncommit,
                 nrelay, leaveSent, lastReg, lastResp>>

\* The database answers findById with the stored document.
DbRead(i) ==
  /\ reqs[i].pc = "findById"
  /\ reqs' = [reqs EXCEPT ![i].pc = "loaded",
                          ![i].orig = store[reqs[i].busId],
                          ![i].d = Loaded(store[reqs[i].busId])]
  /\ UNCHANGED <<store, assignedBus, clock, conn, rooms, delivered, ncommit,
                 nrelay, leaveSent, lastReg, lastResp>>

\* A handler that applies the update before it checks the caller.
ContinueSaveFirst(i) ==
  LET r == reqs[i]
      m == Modify(r.kind, r.d, r.body, clock)
  IN
  /\ r.pc = "loaded"
  /\ reqs' = [reqs EXCEPT ![i] =
       IF ~r.orig.exists THEN [r EXCEPT !.pc = "done", !.resp = 404]
       ELSE IF NotAuthorized(r.user, r.orig)
         THEN [r EXCEPT !.pc = "done", !.resp = 403]
       ELSE IF ~SchemaValid(m) THEN [r EXCEPT !.pc = "done", !.resp = 500]
       ELSE [r EXCEPT !.pc = "saving", !.d = preSave(m)]]
  /\ store' = IF r.orig.exists /\ SchemaValid(m)
              THEN [store EXCEPT ![r.busId] = ApplyUpdate(@, preSave(m))]
              ELSE store
  /\ UNCHANGED <<assignedBus, clock, conn, rooms, delivered, ncommit, nrelay,
                 leaveSent, lastReg, lastResp>>

\* The handler resumes: not found, not authorized, or modify and save().
Continue(i) ==
  LET r == reqs[i]
      m == Modify(r.kind, r.d, r.body, clock)
  IN
  /\ r.pc = "loaded"
  /\ reqs' = [reqs EXCEPT ![i] =
       IF ~r.orig.exists THEN [r EXCEPT !.pc = "done", !.resp = 404]
       ELSE IF NotAuthorized(r.user, r.orig)
         THEN [r EXCEPT !.pc = "done", !.resp = 403]
       ELSE IF ~SchemaValid(m) THEN [r EXCEPT !.pc = "done", !.resp = 500]
       ELSE [r EXCEPT !.pc = "saving", !.d = preSave(m)]]
  /\ UNCHANGED <<store, assignedBus, clock, conn, rooms, delivered, ncommit,
                 nrelay, leaveSent, lastReg, lastResp>>

\* The database applies the update of save(), or finds the version changed.
DbWrite(i) ==
  LET r == reqs[i] IN
  /\ r.pc = "saving"
  /\ IF VersionConflict(store[r.busId], r.d)
     THEN /\ reqs' = [reqs EXCEPT ![i].pc = "done", ![i].resp = 500]
          /\ UNCHANGED <<store, ncommit>>
     ELSE /\ store' = [store EXCEPT ![r.busId] = ApplyUpdate(@, r.d)]
          /\ ncommit' = ncommit + 1
          /\ reqs' = [reqs EXCEPT ![i].pc = "saved", ![i].cid = ncommit + 1]
  /\ UNCHANGED <<assignedBus, clock, conn, rooms, delivered, nrelay,
                 leaveSent, lastReg, lastResp>>

\* The handler resumes after save(): emit to the room, respond 200.
EventOf(r, now) ==
  IF r.kind = "location" THEN LocationEvent(r.busId, r.body, now, r.cid)
  ELSE StatusEvent(r.busId, r.body, r.d.doc, now, r.cid)

Emit(i) ==
  LET r == reqs[i] IN
  /\ r.pc = "saved"
  /\ delivered' = EmitTo(RoomOf(r.busId), EventOf(r, clock))
  /\ reqs' = [reqs EXCEPT ![i].pc = "done", ![i].resp = 200]
  /\ UNCHANGED <<store, assignedBus, clock, conn, rooms, ncommit, nrelay,
                 leaveSent, lastReg, lastResp>>

\* -------------------------------------------------------------- DELETE /:id
\* A DELETE /:id without the role check.
DeleteStatusAnyCaller(user, busId) ==
  IF ~store[busId].exists THEN 404 ELSE 200

DeleteStatus(user, busId) ==
  IF ~store[busId].exists THEN 404
  ELSE IF Role(user) # "admin" THEN 403
  ELSE 200

\* The handler's effect on the database.
Deactivate(user, busId) ==
  /\ IF DeleteStatus(user, busId) = 200
     THEN store' = [store EXCEPT ![busId].isActive = FALSE]
     ELSE UNCHANGED store
  /\ UNCHANGED <<assignedBus, clock, reqs, conn, rooms, delivered, ncommit,
                 nrelay, leaveSent, lastReg>>

DeleteBus(user, busId) ==
  /\ Deactivate(user, busId)
  /\ UNCHANGED lastResp

\* The same handler with the request and the status it answered kept in
\* lastResp.
DeleteLogged(user, busId) ==
  /\ Deactivate(user, busId)
  /\ lastResp' = Resp("delete", user, busId, NoPoint, NoQuery, UndefS,
                      DeleteStatus(user, busId), <<>>)

\* ---------------------------------------------------------------- server.js
Connect(s) ==
  /\ conn[s] = "new"
  /\ \A t \in Sockets : t < s => conn[t] # "new"
  /\ conn' = [conn EXCEPT ![s] = "open"]
  /\ UNCHANGED <<store, assignedBus, clock, reqs, rooms, delivered, ncommit,
                 nrelay, leaveSent, lastReg, lastResp>>

\* socket.on('join-bus-tracking'): socket.join(`bus-${busId}`).
JoinBusTracking(s, busId) ==
  /\ conn[s] = "open"
  /\ rooms' = [rooms EXCEPT ![s] = @ \cup {busId}]
  /\ leaveSent' = leaveSent \ {<<s, busId>>}
  /\ UNCHANGED <<store, assignedBus, clock, reqs, conn, delivered, ncommit,
                 nrelay, lastReg, lastResp>>

\* A client's leave message for a bus. io.on('connection') registers handlers
\* for join-bus-tracking, update-bus-location, update-bus-status and
\* disconnect only, so Socket.io drops the message: no socket.leave is called.
\* leaveSent records the connections whose last message about a bus was a
\* leave.
LeaveBusTracking(s, busId) ==
  /\ conn[s] = "open"
  /\ leaveSent' = leaveSent \cup {<<s, busId>>}
  /\ UNCHANGED <<store, assignedBus, clock, reqs, conn, rooms, delivered,
                 ncommit, nrelay, lastReg, lastResp>>

\* socket.on('update-bus-location'): the client's data is emitted to the room.
SocketUpdateBusLocation(s, busId, body) ==
  /\ conn[s] = "open"
  /\ nrelay < MaxRelay
  /\ nrelay' = nrelay + 1
  /\ delivered' = EmitTo(RoomOf(busId), LocationEvent(busId, body, clock, 0))
  /\ UNCHANGED <<store, assignedBus, clock, reqs, conn, rooms, ncommit,
                 leaveSent, lastReg, lastResp>>

\* socket.on('update-bus-status').
SocketUpdateBusStatus(s, busId, body) ==
  /\ conn[s] = "open"
  /\ nrelay < MaxRelay
  /\ nrelay' = nrelay + 1
  /\ delivered' = EmitTo(RoomOf(busId),
                         StatusEvent(busId, body, body, clock, 0))
  /\ UNCHANGED <<store, assignedBus, clock, reqs, conn, rooms, ncommit,
                 leaveSent, lastReg, lastResp>>

\* A disconnect that leaves the socket in its rooms.
DisconnectKeepRooms(s) ==
  /\ conn[s] = "open"
  /\ conn' = [conn EXCEPT ![s] = "closed"]
  /\ UNCHANGED <<store, assignedBus, clock, reqs, rooms, delivered, ncommit,
                 nrelay, leaveSent, lastReg, lastResp>>

\* socket 'disconnect': Socket.io removes the socket from every room.
Disconnect(s) ==
  /\ conn[s] = "open"
  /\ conn' = [conn EXCEPT ![s] = "closed"]
  /\ rooms' = [rooms EXCEPT ![s] = {}]
  /\ UNCHANGED <<store, assignedBus, clock, reqs, delivered, ncommit, nrelay,
                 leaveSent, lastReg, lastResp>>

\* ------------------------------------------------------------------- Next
\* The HTTP API: registration, the two mutation handlers, deactivation.
Next ==
  \/ Tick
  \/ \E u \in {"admin", "stu"}, n \in BusNumbers, dr \in {"d1", "stu"},
        c \in {0, TestCapacity}, dest \in {"Main Campus", "Nowhere"} :
       Register(u, n, dr, c, dest)
  \/ \E i \in Reqs : \E b \in TargetsOf(i), rq \in RequestsOf(i) :
       Submit(i, rq[1], b, rq[2], rq[3])
  \/ \E i \in Reqs : DbRead(i)
  \/ \E i \in Reqs : Continue(i)
  \/ \E i \in Reqs : DbWrite(i)
  \/ \E i \in Reqs : Emit(i)
  \/ \E u \in Users, b \in DeleteTargets : DeleteBus(u, b)

Spec == Init /\ [][Next]_vars

\* The Socket.io side: connections, rooms, the client relays, and the
\* mutation handlers that emit to the rooms.
BrokerRequests ==
  {<<"d1", "location", MoveBody>>, <<"d2", "location", MoveBody>>,
   <<"d1", "location", BadLatBody>>,
   <<"d1", "status", CountBody(1)>>, <<"d1", "status", BadDestBody>>}

BrokerRequestsOf(i) == IF i = 1 THEN BrokerRequests ELSE Overlapping

NextBroker ==
  \/ Register("admin", "KB1", "d1", TestCapacity, "Main Campus")
  \/ \E i \in Reqs : \E rq \in BrokerRequestsOf(i) :
       Submit(i, rq[1], 1, rq[2], rq[3])
  \/ \E i \in Reqs : DbRead(i)
  \/ \E i \in Reqs : Continue(i)
  \/ \E i \in Reqs : DbWrite(i)
  \/ \E i \in Reqs : Emit(i)
  \/ \E s \in Sockets : Connect(s)
  \/ \E s \in Sockets, b \in BusIds : JoinBusTracking(s, b)
  \/ \E s \in Sockets, b \in BusIds : SocketUpdateBusLocation(s, b, MoveBody)
  \/ \E s \in Sockets, b \in BusIds :
       SocketUpdateBusStatus(s, b, CountBody(1))
  \/ \E s \in Sockets : Disconnect(s)

SpecBroker == Init /\ [][NextBroker]_vars

\* ------------------------------------------------------------------ claims
Stored == {b \in BusIds : store[b].exists}

\* C1: the stored seatAvailability of every bus equals the tier derived from
\* its stored currentPassengers and capacity.
C1_TierMatchesCount ==
  \A b \in Stored :
    store[b].seatAvailability =
      deriveTier(store[b].currentPassengers, store[b].capacity)

\* C2: a mutation of an existing bus submitted by a student is answered 403
\* and commits nothing.
C2_StudentDenied ==
  \A i \in Reqs :
    (Role(reqs[i].user) = "student" /\ reqs[i].orig.exists)
      => /\ reqs[i].cid = 0
         /\ reqs[i].pc = "done" => reqs[i].resp = 403

\* A request that loaded an existing bus and is past the ownership check.
Decided(r) == r.orig.exists /\ r.pc \in {"saving", "saved", "done"}
Denied(r) == r.pc = "done" /\ r.resp = 403

\* C3: on an existing bus, a driver's mutation passes the authorization check
\* if and only if the bus's driverId is the caller, and an admin's always
\* passes.
C3_DriverIffOwner ==
  \A i \in Reqs :
    Decided(reqs[i]) =>
      /\ Role(reqs[i].user) = "driver" =>
           (Denied(reqs[i]) <=> reqs[i].orig.driverId # reqs[i].user)
      /\ Role(reqs[i].user) = "admin" => ~Denied(reqs[i])

C3_Witness ==
  \E i, j \in Reqs :
    /\ Role(reqs[i].user) = "driver" /\ reqs[i].resp = 200
    /\ Role(reqs[j].user) = "driver" /\ reqs[j].resp = 403
    /\ reqs[i].busId = reqs[j].busId

\* C4: a request rejected for a validation or permission failure (400, 403, or
\* the schema validation failing in save()) changed no stored field and
\* delivered no event, at any of its steps.
C4_RejectedNoEffect ==
  [][\A i \in Reqs :
       /\ (reqs'[i] # reqs[i] /\ reqs[i].pc \in {"idle", "findById", "loaded"})
            => (store' = store /\ delivered' = delivered)
       /\ reqs'[i].resp \in {400, 403} => reqs'[i].cid = 0
       /\ (reqs'[i].resp # reqs[i].resp /\ reqs'[i].resp # 200)
            => (store' = store /\ delivered' = delivered)]_vars

C4_Witness ==
  \E i \in Reqs, s \in Sockets :
    /\ reqs[i].resp = 403
    /\ conn[s] = "open" /\ reqs[i].busId \in rooms[s]
    /\ delivered[s] = <<>>

\* C5: every delivered event was produced by a committed mutation.
C5_EventsFromCommits ==
  \A s \in Sockets : \A k \in 1..Len(delivered[s]) : delivered[s][k].cid # 0

CountOf(q, cid) == Cardinality({k \in 1..Len(q) : q[k].cid = cid})

\* C6: the emit of a committed mutation on bus V appends exactly one event to
\* every connection in V's room and nothing to any other connection, and no
\* connection ever holds two events of one commit.
C6_OneEventPerSubscriber ==
  [][/\ \A i \in Reqs :
          (reqs[i].pc = "saved" /\ reqs'[i].pc = "done") =>
            \A s \in Sockets :
              IF conn[s] = "open" /\ reqs[i].busId \in rooms[s]
              THEN /\ Len(delivered'[s]) = Len(delivered[s]) + 1
                   /\ SubSeq(delivered'[s], 1, Len(delivered[s]))
                        = delivered[s]
                   /\ delivered'[s][Len(delivered'[s])].cid = reqs[i].cid
                   /\ delivered'[s][Len(delivered'[s])].busId = reqs[i].busId
              ELSE delivered'[s] = delivered[s]
     /\ \A s \in Sockets : \A c \in 1..MaxReq :
          CountOf(delivered'[s], c) <= 1]_vars

C6_Witness ==
  \E i \in Reqs, s, t \in Sockets :
    /\ reqs[i].resp = 200
    /\ CountOf(delivered[s], reqs[i].cid) = 1
    /\ conn[t] = "open" /\ CountOf(delivered[t], reqs[i].cid) = 0

\* The stored fields a mutation handler writes, apart from the timestamp.
Fields(rec) ==
  <<rec.coordinates, rec.speed, rec.heading, rec.status,
    rec.seatAvailability, rec.currentPassengers, rec.destination>>

\* The record left by running request r alone on record rec.
RunAlone(r, rec) ==
  ApplyUpdate(rec, preSave(Modify(r.kind, Loaded(rec), r.body,
                                  r.d.doc.lastUpdated)))

\* C7: two successful requests on one bus that both loaded it before either
\* saved leave the fields of one of their two serial orders.
C7_Serializable ==
  \A i, j \in Reqs :
    (/\ i < j
     /\ reqs[i].resp = 200 /\ reqs[j].resp = 200
     /\ reqs[i].busId = reqs[j].busId
     /\ reqs[i].orig = reqs[j].orig)
    => Fields(store[reqs[i].busId]) \in
         { Fields(RunAlone(reqs[j], RunAlone(reqs[i], reqs[i].orig))),
           Fields(RunAlone(reqs[i], RunAlone(reqs[j], reqs[i].orig))) }

\* C8: every connection receives the events of one bus in commit order.
C8_DeliveredInCommitOrder ==
  \A s \in Sockets : \A k, l \in 1..Len(delivered[s]) :
    (/\ k < l
     /\ delivered[s][k].cid # 0 /\ delivered[s][l].cid # 0
     /\ delivered[s][k].busId = delivered[s][l].busId)
    => delivered[s][k].cid < delivered[s][l].cid

\* C9: the stored lastUpdated of a bus never decreases.
C9_LastUpdatedMonotone ==
  [][\A b \in Stored : store'[b].lastUpdated >= store[b].lastUpdated]_vars

\* C10: every stored bus has 0 <= currentPassengers <= capacity.
C10_CountWithinCapacity ==
  \A b \in Stored :
    store[b].currentPassengers >= 0
    /\ store[b].currentPassengers <= store[b].capacity

\* ------------------------------------------------- seat tier on save
\* A PUT /:id/status with a passenger count, handled with no other handler
\* in flight: load, Object.assign, pre('save'), save.
SaveCount(b, p) ==
  /\ store[b].exists
  /\ store' = [store EXCEPT ![b] =
       ApplyUpdate(@, preSave(assignStatus(Loaded(@), CountBody(p), clock)))]
  /\ UNCHANGED <<assignedBus, clock, reqs, conn, rooms, delivered, ncommit,
                 nrelay, leaveSent, lastReg, lastResp>>

\* A store holding one registered bus of any capacity the schema allows.
InitTier ==
  /\ \E c \in MinCapacity..MaxCapacity :
       store = [b \in BusIds |->
                  IF b = 1 THEN NewBus("KB1", "d1", c, "Main Campus", 0)
                  ELSE NoBus]
  /\ assignedBus = [u \in Users |-> IF u = "d1" THEN 1 ELSE 0]
  /\ clock = 0
  /\ reqs = [i \in Reqs |-> IdleReq]
  /\ conn = [s \in Sockets |-> "new"]
  /\ rooms = [s \in Sockets |-> {}]
  /\ delivered = [s \in Sockets |-> <<>>]
  /\ ncommit = 0
  /\ nrelay = 0
  /\ leaveSent = {}
  /\ lastReg = NoReg
  /\ lastResp = NoResp

NextTier == \E p \in 0..MaxCapacity : SaveCount(1, p)

SpecTier == InitTier /\ [][NextTier]_vars

\* The tier the derivation is claimed to return.
ExpectedTier(p, c) ==
  IF p = 0 THEN "Empty"
  ELSE IF 10 * p >= 9 * c THEN "Full"
  ELSE "Few Seats"

\* C11: a save that changes the passenger count to p, 0 <= p <= capacity,
\* stores Empty iff p = 0, Full iff p > 0 and 10p >= 9 capacity, and
\* Few Seats otherwise.
C11_TierTable ==
  [][\A b \in Stored :
       (/\ store'[b].currentPassengers # store[b].currentPassengers
        /\ store'[b].currentPassengers <= store'[b].capacity)
       => /\ store'[b].seatAvailability =
               ExpectedTier(store'[b].currentPassengers, store'[b].capacity)
          /\ (store'[b].seatAvailability = "Empty"
                <=> store'[b].currentPassengers = 0)
          /\ (store'[b].seatAvailability = "Full"
                <=> (store'[b].currentPassengers > 0
                     /\ 10 * store'[b].currentPassengers
                          >= 9 * store'[b].capacity))]_vars

C11_Witness ==
  /\ store[1].exists /\ store[1].capacity = 10
  /\ store[1].currentPassengers = 9
  /\ store[1].seatAvailability = "Full"

\* ------------------------------------------------------- broker claims
\* C12: a delivered bus-status-updated event of a commit carries the seat
\* tier and the passenger count of the document that commit saved.
C12_EventMatchesCommit ==
  \A s \in Sockets : \A k \in 1..Len(delivered[s]) : \A i \in Reqs :
    (/\ delivered[s][k].cid # 0
     /\ delivered[s][k].cid = reqs[i].cid
     /\ delivered[s][k].type = "bus-status-updated")
    => /\ delivered[s][k].seatAvailability = reqs[i].d.doc.seatAvailability
       /\ delivered[s][k].currentPassengers = reqs[i].d.doc.currentPassengers

\* C13: the step in which a connection joins the room of an existing bus
\* delivers the bus's stored snapshot to that connection.
C13_JoinSendsSnapshot ==
  [][\A s \in Sockets : \A b \in Stored :
       (b \in rooms'[s] /\ b \notin rooms[s])
       => /\ Len(delivered'[s]) = Len(delivered[s]) + 1
          /\ delivered'[s][Len(delivered'[s])].busId = b]_vars

\* C14: an event is delivered to a connection only while the connection is
\* open and in the room of the event's bus.
C14_OnlyJoinedRooms ==
  [][\A s \in Sockets :
       delivered'[s] # delivered[s]
       => /\ conn[s] = "open"
          /\ Len(delivered'[s]) = Len(delivered[s]) + 1
          /\ delivered'[s][Len(delivered'[s])].busId \in rooms[s]]_vars

C14_Witness ==
  \E s, t \in Sockets :
    /\ delivered[s] # <<>> /\ delivered[t] # <<>>
    /\ \A k \in 1..Len(delivered[s]) : delivered[s][k].busId = 1
    /\ \A k \in 1..Len(delivered[t]) : delivered[t][k].busId = 2
    /\ rooms[s] = {1} /\ rooms[t] = {2}

\* C15: a closed connection is in no room and receives nothing more.
C15_NothingAfterDisconnect ==
  [][\A s \in Sockets :
       /\ conn'[s] = "closed" => rooms'[s] = {}
       /\ conn[s] = "closed" => delivered'[s] = delivered[s]]_vars

C15_Witness ==
  \E s \in Sockets, i \in Reqs :
    /\ conn[s] = "closed"
    /\ reqs[i].resp = 200
    /\ CountOf(delivered[s], reqs[i].cid) = 0
    /\ \E k \in 1..Len(delivered[s]) :
         delivered[s][k].busId = reqs[i].busId

\* The socket side alone, with clients that also send leave messages.
NextLeave ==
  \/ \E s \in Sockets : Connect(s)
  \/ \E s \in Sockets, b \in BusIds : JoinBusTracking(s, b)
  \/ \E s \in Sockets, b \in BusIds : LeaveBusTracking(s, b)
  \/ \E s \in Sockets, b \in BusIds : SocketUpdateBusLocation(s, b, MoveBody)
  \/ \E s \in Sockets : Disconnect(s)

SpecLeave == Init /\ [][NextLeave]_vars

\* C16: a connection whose last message about bus V was a leave is not in
\* V's room, and an event for V is never delivered to it.
C16_LeaveUnsubscribes ==
  [][\A p \in leaveSent :
       /\ p[2] \notin rooms[p[1]]
       /\ delivered'[p[1]] # delivered[p[1]]
          => delivered'[p[1]][Len(delivered'[p[1]])].busId # p[2]]_vars

\* ---------------------------------------------------- registry claims
\* C17: a mutation whose findById returned a deactivated bus ends with 404
\* like an unknown id, and commits nothing.
C17_InactiveIsNotFound ==
  \A i \in Reqs :
    (/\ reqs[i].orig.exists
     /\ ~reqs[i].orig.isActive
     /\ reqs[i].pc # "loaded")
    => /\ reqs[i].pc = "done"
       /\ reqs[i].resp = 404
       /\ reqs[i].cid = 0

\* C18: every stored bus has latitude in [-90,90], longitude in [-180,180],
\* speed >= 0 and heading in [0,360), 360 excluded.
C18_LocationInRange ==
  \A b \in Stored :
    /\ store[b].coordinates[2] >= MinLat /\ store[b].coordinates[2] <= MaxLat
    /\ store[b].coordinates[1] >= MinLon /\ store[b].coordinates[1] <= MaxLon
    /\ store[b].speed >= 0
    /\ store[b].heading >= 0 /\ store[b].heading < MaxHeading

\* POST / alone, with capacities on both sides of the validator's bounds.
RegCapacities == {MinCapacity - 1, MinCapacity, MaxCapacity, MaxCapacity + 1}

NextRegister ==
  \E u \in Users, n \in BusNumbers, dr \in Users, c \in RegCapacities,
     dest \in {"Main Campus", "Nowhere"} :
    RegisterLogged(u, n, dr, c, dest)

SpecRegister == Init /\ [][NextRegister]_vars

\* The step created exactly one bus, under an id no bus had, from request q.
Created(q) ==
  \E b \in BusIds :
    /\ ~store[b].exists /\ store'[b].exists
    /\ \A c \in BusIds \ {b} : store'[c] = store[c]
    /\ store'[b].busNumber = q.busNumber
    /\ store'[b].capacity = q.capacity
    /\ store'[b].destination = q.destination
    /\ store'[b].currentPassengers = 0
    /\ store'[b].seatAvailability = "Empty"
    /\ store'[b].isActive

C20_OnlyAdminCreates ==
  [][(store' # store \/ assignedBus' # assignedBus)
       => Role(lastReg'.user) = "admin"]_vars

\* ------------------------------------------------- location claims
\* The step commits the location mutation of request i.
LocationCommit(i) == reqs'[i].cid # reqs[i].cid /\ reqs[i].kind = "location"

\* C24: the position stored for a bus, which is the one the nearby query
\* reads, is the registration position or the position of a committed
\* location mutation of that bus, and right after a location commit it is the
\* position of that mutation.
C24_PositionIsCommitted ==
  [][/\ \A b \in BusIds :
          store'[b].exists =>
            \/ store'[b].coordinates = <<DefaultLon, DefaultLat>>
            \/ \E i \in Reqs :
                 /\ reqs'[i].cid # 0 /\ reqs'[i].kind = "location"
                 /\ reqs'[i].busId = b
                 /\ store'[b].coordinates =
                      <<reqs'[i].body.longitude, reqs'[i].body.latitude>>
     /\ \A i \in Reqs :
          LocationCommit(i) =>
            store'[reqs[i].busId].coordinates =
              <<reqs[i].body.longitude, reqs[i].body.latitude>>]_vars

\* C25: the commit of a location mutation leaves the bus's currentPassengers,
\* seatAvailability, status, destination, driverId and isActive, and every
\* other bus, as they were in the store.
C25_LocationFrame ==
  [][\A i \in Reqs :
       LocationCommit(i) =>
         /\ \A f \in {"currentPassengers", "seatAvailability", "status",
                      "destination", "driverId", "isActive"} :
              store'[reqs[i].busId][f] = store[reqs[i].busId][f]
         /\ \A c \in BusIds \ {reqs[i].busId} : store'[c] = store[c]]_vars

C25_Witness ==
  \E i, j \in Reqs :
    /\ reqs[i].kind = "location" /\ reqs[j].kind = "status"
    /\ reqs[i].busId = reqs[j].busId
    /\ reqs[j].cid # 0 /\ reqs[i].cid > reqs[j].cid
    /\ reqs[i].orig.status # store[reqs[i].busId].status
    /\ store[reqs[i].busId].status = reqs[j].body.status

\* C26: a status mutation of an existing bus by a permitted caller whose
\* destination is not an allowed one is answered 400 as a validation error, and every stored destination is an allowed one.
C26_BadDestinationIs400 ==
  /\ \A i \in Reqs :
       (/\ reqs[i].kind = "status"
        /\ reqs[i].body.destination # UndefS
        /\ reqs[i].body.destination \notin Destinations
        /\ reqs[i].orig.exists
        /\ ~NotAuthorized(reqs[i].user, reqs[i].orig)
        /\ reqs[i].pc = "done")
       => reqs[i].resp = 400 /\ reqs[i].cid = 0
  /\ \A b \in Stored : store[b].destination \in Destinations

\* C29: every bus's driver has role driver and has that bus as assignedBus.
C29_AssignmentConsistent ==
  \A b \in Stored :
    /\ Role(store[b].driverId) = "driver"
    /\ assignedBus[store[b].driverId] = b

\* --------------------------------------------------- probing claims
\* Two drivers send the same location mutation to an existing and to an
\* unknown bus id.
NextProbe ==
  \/ Register("admin", "KB1", "d1", TestCapacity, "Main Campus")
  \/ \E i \in Reqs, u \in {"d1", "d2"}, b \in BusIds :
       Submit(i, u, b, "location", MoveBody)
  \/ \E i \in Reqs : DbRead(i)
  \/ \E i \in Reqs : Continue(i)
  \/ \E i \in Reqs : DbWrite(i)
  \/ \E i \in Reqs : Emit(i)

SpecProbe == Init /\ [][NextProbe]_vars

\* C23: two finished mutation requests of the same caller with the same body,
\* where the caller drives no bus and is no admin, got the same status code
\* whether or not the target existed.
C23_SameFailureKind ==
  \A i, j \in Reqs :
    (/\ reqs[i].pc = "done" /\ reqs[j].pc = "done"
     /\ reqs[i].user = reqs[j].user
     /\ reqs[i].kind = reqs[j].kind /\ reqs[i].body = reqs[j].body
     /\ Role(reqs[i].user) = "driver"
     /\ \A b \in Stored : store[b].driverId # reqs[i].user
     /\ reqs[i].orig.exists /\ ~reqs[j].orig.exists)
    => reqs[i].resp = reqs[j].resp

\* ----------------------------------------------- Bus.updateStatus
\* currentPassengers || this.currentPassengers: 0 and undefined are falsy.
OrElse(x, y) == IF x = UndefN \/ x = 0 THEN y ELSE x

\* busSchema.methods.updateStatus, up to its call of save().
updateStatus(d, status, seatAvailability, currentPassengers, now) ==
  LET d1 == SetPath(d, "status", status)
      d2 == SetPath(d1, "seatAvailability", seatAvailability)
      d3 == SetPath(d2, "currentPassengers",
                    OrElse(currentPassengers, d.doc.currentPassengers))
  IN SetPath(d3, "lastUpdated", now)

\* bus.updateStatus(...) on a loaded bus: the assignments, then save().
UpdateStatusCall(b, status, seatAvailability, currentPassengers) ==
  LET m == updateStatus(Loaded(store[b]), status, seatAvailability,
                        currentPassengers, clock)
  IN
  /\ store[b].exists
  /\ store' = IF SchemaValid(m)
              THEN [store EXCEPT ![b] = ApplyUpdate(@, preSave(m))]
              ELSE store
  /\ UNCHANGED <<assignedBus, clock, reqs, conn, rooms, delivered, ncommit,
                 nrelay, leaveSent, lastReg, lastResp>>

\* A bus in service with passengers on board.
InitUpdateStatus ==
  /\ \E c \in MinCapacity..MaxCapacity : \E p \in 1..MaxPass :
       /\ p <= c
       /\ store = [b \in BusIds |->
            IF b = 1
            THEN [NewBus("KB1", "d1", c, "Main Campus", 0) EXCEPT
                    !.status = "active", !.currentPassengers = p,
                    !.seatAvailability = deriveTier(p, c)]
            ELSE NoBus]
  /\ assignedBus = [u \in Users |-> IF u = "d1" THEN 1 ELSE 0]
  /\ clock = 0
  /\ reqs = [i \in Reqs |-> IdleReq]
  /\ conn = [s \in Sockets |-> "new"]
  /\ rooms = [s \in Sockets |-> {}]
  /\ delivered = [s \in Sockets |-> <<>>]
  /\ ncommit = 0
  /\ nrelay = 0
  /\ leaveSent = {}
  /\ lastReg = NoReg
  /\ lastResp = NoResp

\* updateStatus called with currentPassengers = 0.
NextUpdateStatus ==
  \E st \in Statuses, t \in SeatTiers : UpdateStatusCall(1, st, t, 0)

SpecUpdateStatus == InitUpdateStatus /\ [][NextUpdateStatus]_vars

\* C30: after updateStatus is called with currentPassengers = 0, the bus has
\* currentPassengers = 0 and seatAvailability = Empty.
C30_UpdateStatusStoresZero ==
  [][/\ store'[1].currentPassengers = 0
     /\ store'[1].seatAvailability = "Empty"]_vars

\* ------------------------------------------------------ GET endpoints
\* Metres per 1e-4 degree of latitude and of longitude around latitude 20,
\* for MongoDB's $near distance on the 2dsphere index.
MetresPerLat == 11
MetresPerLon == 10
DefaultMaxDistance == 5000

Abs(x) == IF x < 0 THEN -x ELSE x

\* Squared distance in metres between two [longitude, latitude] pairs.
Dist2(c, d) ==
  (MetresPerLon * Abs(c[1] - d[1])) * (MetresPerLon * Abs(c[1] - d[1]))
  + (MetresPerLat * Abs(c[2] - d[2])) * (MetresPerLat * Abs(c[2] - d[2]))

\* The orders in which find() may return the set S under a sort: any order
\* of S in which no bus comes after one that the sort puts behind it
\* (behind[a][b]: a sorts after b).
Sorted(S, behind) ==
  {q \in [1..Cardinality(S) -> S] :
     /\ \A k, l \in 1..Cardinality(S) : k # l => q[k] # q[l]
     /\ \A k, l \in 1..Cardinality(S) : k < l => ~behind[q[k]][q[l]]}

\* .sort({ lastUpdated: -1 })
Older ==
  [a \in Stored |-> [b \in Stored |->
     store[a].lastUpdated < store[b].lastUpdated]]

\* Bus.find(filter) of GET /: isActive, and status and destination if given.
ListFilter(status, destination) ==
  {b \in Stored :
     /\ store[b].isActive
     /\ status # UndefS => store[b].status = status
     /\ destination # UndefS => store[b].destination = destination}

\* GET /
ListBuses(status, destination) ==
  /\ \E q \in Sorted(ListFilter(status, destination), Older) :
       lastResp' = Resp("list", "admin", 0, NoPoint,
                        [NoQuery EXCEPT !.limit = 50], destination, 200, q)
  /\ UNCHANGED <<store, assignedBus, clock, reqs, conn, rooms, delivered,
                 ncommit, nrelay, leaveSent, lastReg>>

\* GET /:id
GetBus(busId) ==
  /\ lastResp' = IF store[busId].exists
                 THEN Resp("get", "admin", busId, NoPoint, NoQuery, UndefS,
                           200, <<busId>>)
                 ELSE Resp("get", "admin", busId, NoPoint, NoQuery, UndefS,
                           404, <<>>)
  /\ UNCHANGED <<store, assignedBus, clock, reqs, conn, rooms, delivered,
                 ncommit, nrelay, leaveSent, lastReg>>

\* GET /destination/:destination; status defaults to 'active'.
ByDestination(destination, status) ==
  /\ \E q \in Sorted({b \in Stored :
                        /\ store[b].destination = destination
                        /\ store[b].status =
                             (IF status = UndefS THEN "active" ELSE status)
                        /\ store[b].isActive}, Older) :
       lastResp' = Resp("destination", "admin", 0, NoPoint, NoQuery,
                        destination, 200, q)
  /\ UNCHANGED <<store, assignedBus, clock, reqs, conn, rooms, delivered,
                 ncommit, nrelay, leaveSent, lastReg>>

\* busSchema.statics.findNearby: the buses $near returns, nearest first.
NearbyFilter(coordinates, maxDistance) ==
  {b \in Stored :
     /\ Dist2(store[b].coordinates, coordinates) <= maxDistance * maxDistance
     /\ store[b].status = "active"
     /\ store[b].isActive}

findNearby(coordinates, maxDistance) ==
  LET farther == [a \in Stored |-> [b \in Stored |->
                    Dist2(store[a].coordinates, coordinates)
                      > Dist2(store[b].coordinates, coordinates)]]
  IN Sorted(NearbyFilter(coordinates, maxDistance), farther)

\* GET /nearby/:latitude/:longitude. The centre is read from req.query; a
\* missing value is parsed to NaN, which MongoDB refuses as a point, and the
\* catch answers 500. The path parameters and a limit are never read.
Nearby(path, query) ==
  LET coordinates == <<query.longitude, query.latitude>>
      maxDistance == Default(query.maxDistance, DefaultMaxDistance)
  IN
  /\ IF query.latitude = UndefN \/ query.longitude = UndefN
        \/ ~ValidCoordinates(coordinates)
     THEN lastResp' = Resp("nearby", "admin", 0, path, query, UndefS, 500, <<>>)
     ELSE \E q \in findNearby(coordinates, maxDistance) :
            lastResp' = Resp("nearby", "admin", 0, path, query, UndefS, 200, q)
  /\ UNCHANGED <<store, assignedBus, clock, reqs, conn, rooms, delivered,
                 ncommit, nrelay, leaveSent, lastReg>>

\* The points and the query strings the clients send to the GET endpoints.
Campus == <<DefaultLat, DefaultLon>>
Depot == <<203550, 858190>>
Points == {Campus, Depot}
Centres == {NoPoint, Campus}
Limits == {UndefN, 1}
Around(p, limit) ==
  [latitude |-> p[1], longitude |-> p[2], maxDistance |-> UndefN,
   limit |-> limit]

\* The registry with its read endpoints: two buses are registered, set in
\* service, deactivated and queried.
NextQuery ==
  \/ Tick
  \/ Register("admin", "KB1", "d1", TestCapacity, "Main Campus")
  \/ Register("admin", "KB2", "d2", TestCapacity, "Main Campus")
  \/ \E i \in Reqs : Submit(i, "admin", i, "status", CountBody(1))
  \/ \E i \in Reqs : DbRead(i)
  \/ \E i \in Reqs : Continue(i)
  \/ \E i \in Reqs : DbWrite(i)
  \/ \E i \in Reqs : Emit(i)
  \/ \E u \in {"admin", "d1"}, b \in BusIds : DeleteLogged(u, b)
  \/ \E st \in {UndefS, "active"} : ListBuses(st, UndefS)
  \/ \E b \in BusIds : GetBus(b)
  \/ ByDestination("Main Campus", UndefS)
  \/ \E p \in Points, c \in Centres, n \in Limits : Nearby(p, Around(c, n))

SpecQuery == Init /\ [][NextQuery]_vars

\* --------------------------------------------------------- query claims
\* The step answered a request of the GET and DELETE endpoints.
Answered(op) == lastResp' # lastResp /\ lastResp'.op = op

Returned(r) == {r.buses[k] : k \in 1..Len(r.buses)}

\* C21: no bus is ever removed from the store; DELETE /:id by an admin only
\* sets isActive = false and by anyone else changes nothing; the default
\* listing, the by-destination listing and the nearby query return no bus
\* with isActive = false, and GET /:id still returns it.
C21_SoftDelete ==
  [][/\ \A b \in Stored : store'[b].exists
     /\ Answered("delete") =>
          IF lastResp'.status = 200
          THEN /\ Role(lastResp'.user) = "admin"
               /\ store' = [store EXCEPT ![lastResp'.busId].isActive = FALSE]
          ELSE store' = store
     /\ \A b \in Stored :
          store'[b].isActive # store[b].isActive =>
            /\ Answered("delete") /\ lastResp'.busId = b
            /\ ~store'[b].isActive
     /\ (Answered("list") \/ Answered("destination") \/ Answered("nearby"))
          => \A b \in Returned(lastResp') : store[b].isActive
     /\ (Answered("get") /\ store[lastResp'.busId].exists)
          => lastResp'.status = 200 /\ lastResp'.buses = <<lastResp'.busId>>]_vars

C21_Witness ==
  /\ lastResp.op = "get" /\ lastResp.status = 200
  /\ ~store[lastResp.busId].isActive
  /\ store[lastResp.busId].status = "active"
  /\ \E b \in Stored : store[b].isActive

\* C22: the nearby query returns at most limit buses, each active (isActive)
\* and within maxDistance metres of the centre, nearest first.
C22_NearestBounded ==
  [][(Answered("nearby") /\ lastResp'.status = 200) =>
       LET r == lastResp'
           centre == <<r.query.longitude, r.query.latitude>>
           radius == Default(r.query.maxDistance, DefaultMaxDistance)
       IN /\ r.query.limit # UndefN => Len(r.buses) <= r.query.limit
          /\ \A b \in Returned(r) :
               /\ store[b].isActive
               /\ Dist2(store[b].coordinates, centre) <= radius * radius
          /\ \A k, l \in 1..Len(r.buses) :
               k < l => Dist2(store[r.buses[k]].coordinates, centre)
                          <= Dist2(store[r.buses[l]].coordinates, centre)]_vars

\* C27: a nearby request with no query parameters searches around the
\* latitude and longitude of its path.
C27_CentreFromPath ==
  [][(Answered("nearby") /\ lastResp'.query = NoQuery) =>
       /\ lastResp'.status = 200
       /\ lastResp'.buses \in
            findNearby(<<lastResp'.path[2], lastResp'.path[1]>>,
                       DefaultMaxDistance)]_vars

\* C28: the nearby query returns every bus with isActive = true whose stored
\* position is within the radius of the centre, whatever its status.
C28_AllActiveInRadius ==
  [][(Answered("nearby") /\ lastResp'.status = 200) =>
       LET r == lastResp'
           centre == <<r.query.longitude, r.query.latitude>>
           radius == Default(r.query.maxDistance, DefaultMaxDistance)
       IN \A b \in Stored :
            (/\ store[b].isActive
             /\ Dist2(store[b].coordinates, centre) <= radius * radius)
            => b \in Returned(r)]_vars

====
